---- MODULE Spec2Model ----
(***************************************************************************)
(* A model of parse_calendarific.py: the holiday pipeline                  *)
(*   validate_dates -> (per country: fetch_holidays per year ->            *)
(*   filter_holidays_by_date -> save_to_file).                             *)
(*                                                                         *)
(* Text (date strings, file names, file contents) is a sequence of         *)
(* one-character strings.  A JSON value is a tagged record; a JSON object  *)
(* keeps its members as a sequence of <<key, value>> pairs, as a Python    *)
(* dict keeps insertion order.  A Python call that can raise is an         *)
(* operator whose result carries the exception class in .exc ("none" when  *)
(* it returned).                                                           *)
(***************************************************************************)
EXTENDS Integers, Sequences, FiniteSets, TLC

VARIABLES
    pc,                 \* where main is: "main", "loop", "fetch", "filter", "save", "done", "crashed"
    countries_list,     \* main's argument: sequence of country codes (each a text)
    start_date,         \* main's argument: text
    end_date,           \* main's argument: text
    validated,          \* "pending", "ok", or the exception class validate_dates raised
    start_date_obj,     \* <<year, month, day>> once validated, <<>> before
    end_date_obj,
    idx,                \* index in countries_list of the country being processed
    year,               \* the year the inner loop is at
    all_holidays,       \* the accumulator of line 97
    holidays,           \* what the last fetch_holidays call returned
    filtered_holidays,  \* what filter_holidays_by_date returned
    filename,           \* line 106
    response,           \* what the provider answered to the last request
    provider,           \* the answers the provider may give
    files,              \* the file system: file name -> content (text)
    trace,              \* every fetch_holidays and save_to_file call main made, in order
    requests,           \* how many HTTP requests were sent
    raised              \* the exception that escaped main, "none" if none

vars == <<pc, countries_list, start_date, end_date, validated, start_date_obj,
          end_date_obj, idx, year, all_holidays, holidays, filtered_holidays,
          filename, response, provider, files, trace, requests, raised>>

(***************************************************************************)
(* Bounds of the model.                                                    *)
(***************************************************************************)
MaxCountries == 2       \* longest country list main is given
MaxHolidays == 1        \* longest holiday list in one provider answer
MaxList == 3            \* longest accumulated list handed to the filter

(***************************************************************************)
(* Text helpers.                                                           *)
(***************************************************************************)
Digits == <<"0", "1", "2", "3", "4", "5", "6", "7", "8", "9">>

IsDigit(c) == \E i \in 1..10 : Digits[i] = c

DigitVal(c) == (CHOOSE i \in 1..10 : Digits[i] = c) - 1

RECURSIVE IntOf(_)
\* int() of a text of decimal digits
IntOf(s) ==
    IF s = <<>> THEN 0
    ELSE 10 * IntOf(SubSeq(s, 1, Len(s) - 1)) + DigitVal(s[Len(s)])

RECURSIVE Decimal(_)
\* str() of a natural number
Decimal(n) ==
    IF n < 10 THEN <<Digits[n + 1]>>
    ELSE Decimal(n \div 10) \o <<Digits[(n % 10) + 1]>>

RECURSIVE Concat(_)
Concat(ss) == IF ss = <<>> THEN <<>> ELSE Head(ss) \o Concat(Tail(ss))

(***************************************************************************)
(* datetime: the calendar.                                                 *)
(***************************************************************************)
IsLeap(y) == y % 4 = 0 /\ (y % 100 # 0 \/ y % 400 = 0)

DaysInMonth(y, m) ==
    IF m = 2 THEN (IF IsLeap(y) THEN 29 ELSE 28)
    ELSE IF m \in {4, 6, 9, 11} THEN 30 ELSE 31

\* datetime(year, month, day): ValueError outside the calendar
datetime(y, m, d) ==
    IF y \in 1..9999 /\ m \in 1..12 /\ d \in 1..DaysInMonth(y, m)
    THEN [exc |-> "none", value |-> <<y, m, d>>]
    ELSE [exc |-> "ValueError", value |-> <<>>]

\* a < b on datetime objects: year, then month, then day
DateLT(a, b) ==
    \/ a[1] < b[1]
    \/ a[1] = b[1] /\ a[2] < b[2]
    \/ a[1] = b[1] /\ a[2] = b[2] /\ a[3] < b[3]

DateLE(a, b) == DateLT(a, b) \/ a = b

(***************************************************************************)
(* datetime.strptime(s, '%Y-%m-%d').  The format compiles to the regular   *)
(* expression                                                              *)
(*   (\d\d\d\d)-(1[0-2]|0[1-9]|[1-9])-(3[01]|[12]\d|0[1-9]|[1-9]| [1-9])   *)
(* matched at the start of s; text left after the match is an error.       *)
(***************************************************************************)
At(s, i) == IF i \in 1..Len(s) THEN s[i] ELSE "$"

NonZero(c) == IsDigit(c) /\ c # "0"

\* the length of the month group starting at 6, 0 when no alternative
\* matches with the "-" after it
MonthLen(s) ==
    IF At(s, 6) = "1" /\ At(s, 7) \in {"0", "1", "2"} /\ At(s, 8) = "-" THEN 2
    ELSE IF At(s, 6) = "0" /\ NonZero(At(s, 7)) /\ At(s, 8) = "-" THEN 2
    ELSE IF NonZero(At(s, 6)) /\ At(s, 7) = "-" THEN 1
    ELSE 0

\* the length of the day group starting at p: the first alternative that matches
DayLen(s, p) ==
    IF At(s, p) = "3" /\ At(s, p + 1) \in {"0", "1"} THEN 2
    ELSE IF At(s, p) \in {"1", "2"} /\ IsDigit(At(s, p + 1)) THEN 2
    ELSE IF At(s, p) = "0" /\ NonZero(At(s, p + 1)) THEN 2
    ELSE IF NonZero(At(s, p)) THEN 1
    ELSE IF At(s, p) = " " /\ NonZero(At(s, p + 1)) THEN 2
    ELSE 0

strptime(s) ==
    LET yearOk == (\A i \in 1..4 : IsDigit(At(s, i))) /\ At(s, 5) = "-"
        ml == MonthLen(s)
        p == 6 + ml + 1
        dl == DayLen(s, p)
        dayText == SubSeq(s, p, p + dl - 1)
    IN  IF ~yearOk \/ ml = 0 \/ dl = 0
        THEN [exc |-> "ValueError", value |-> <<>>]       \* does not match format
        ELSE IF p + dl - 1 # Len(s)
        THEN [exc |-> "ValueError", value |-> <<>>]       \* unconverted data remains
        ELSE datetime(IntOf(SubSeq(s, 1, 4)),
                      IntOf(SubSeq(s, 6, 5 + ml)),
                      IntOf(IF dayText[1] = " " THEN Tail(dayText) ELSE dayText))

(***************************************************************************)
(* validate_dates (lines 78-87).                                           *)
(***************************************************************************)
validate_dates_late_check(s, e) ==
    LET a == strptime(s)
        b == strptime(e)
    IN  IF a.exc # "none" THEN [exc |-> a.exc, value |-> <<>>]
        ELSE IF b.exc # "none" THEN [exc |-> b.exc, value |-> <<>>]
        ELSE [exc |-> "none", value |-> <<a.value, b.value>>]

validate_dates(s, e) ==
    LET a == strptime(s)
        b == strptime(e)
    IN  IF a.exc # "none" THEN [exc |-> a.exc, value |-> <<>>]
        ELSE IF b.exc # "none" THEN [exc |-> b.exc, value |-> <<>>]
        ELSE IF DateLT(b.value, a.value)                  \* start_date_obj > end_date_obj
        THEN [exc |-> "ValueError", value |-> <<>>]
        ELSE [exc |-> "none", value |-> <<a.value, b.value>>]

(***************************************************************************)
(* JSON values, as json.loads builds them: dict, list, str, int, None.     *)
(***************************************************************************)
JInt(n) == [t |-> "int", v |-> n]
JStr(s) == [t |-> "str", v |-> s]
JNull == [t |-> "null"]
JArr(items) == [t |-> "arr", items |-> items]
JObj(kv) == [t |-> "obj", kv |-> kv]

\* the spelling of the keys the model uses
KeyText ==
    [name |-> <<"n", "a", "m", "e">>,
     date |-> <<"d", "a", "t", "e">>,
     iso |-> <<"i", "s", "o">>,
     datetime |-> <<"d", "a", "t", "e", "t", "i", "m", "e">>,
     year |-> <<"y", "e", "a", "r">>,
     month |-> <<"m", "o", "n", "t", "h">>,
     day |-> <<"d", "a", "y">>,
     response |-> <<"r", "e", "s", "p", "o", "n", "s", "e">>,
     holidays |-> <<"h", "o", "l", "i", "d", "a", "y", "s">>,
     meta |-> <<"m", "e", "t", "a">>]

Keys(o) == {o.kv[i][1] : i \in 1..Len(o.kv)}

Lookup(o, k) == o.kv[CHOOSE i \in 1..Len(o.kv) : o.kv[i][1] = k][2]

Contains(text, part) ==
    \E i \in 0..(Len(text) - Len(part)) : SubSeq(text, i + 1, i + Len(part)) = part

\* key in x
In(k, x) ==
    IF x.t = "obj" THEN [exc |-> "none", value |-> k \in Keys(x)]
    ELSE IF x.t = "arr"
    THEN [exc |-> "none", value |-> \E i \in 1..Len(x.items) : x.items[i] = JStr(KeyText[k])]
    ELSE IF x.t = "str" THEN [exc |-> "none", value |-> Contains(x.v, KeyText[k])]
    ELSE [exc |-> "TypeError", value |-> FALSE]

\* x[key]
Subscript(x, k) ==
    IF x.t = "obj"
    THEN (IF k \in Keys(x) THEN [exc |-> "none", value |-> Lookup(x, k)]
          ELSE [exc |-> "KeyError", value |-> JNull])
    ELSE [exc |-> "TypeError", value |-> JNull]

\* what list.extend(x) appends
Iterate(x) ==
    IF x.t = "arr" THEN [exc |-> "none", value |-> x.items]
    ELSE IF x.t = "obj"
    THEN [exc |-> "none", value |-> [i \in 1..Len(x.kv) |-> JStr(KeyText[x.kv[i][1]])]]
    ELSE IF x.t = "str"
    THEN [exc |-> "none", value |-> [i \in 1..Len(x.v) |-> JStr(<<x.v[i]>>)]]
    ELSE [exc |-> "TypeError", value |-> <<>>]

(***************************************************************************)
(* Exception classes and the except clauses that catch them.               *)
(***************************************************************************)
RequestExceptions == {"HTTPError", "ConnectionError", "JSONDecodeError"}

Exceptions == RequestExceptions \cup {"KeyError", "TypeError", "ValueError", "IOError"}

(***************************************************************************)
(* fetch_holidays (lines 18-43).  resp is the provider's answer: status 0  *)
(* stands for a request that got no answer, body for the answer's body     *)
(* ([t |-> "bad"] when it is not JSON).                                    *)
(***************************************************************************)
\* response.raise_for_status()
raise_for_status(status) == status \in 400..599

\* lines 27-34: the body of the try
fetch_try(resp) ==
    IF resp.status = 0 THEN [exc |-> "ConnectionError", value |-> <<>>]
    ELSE IF raise_for_status(resp.status) THEN [exc |-> "HTTPError", value |-> <<>>]
    ELSE IF resp.body.t = "bad" THEN [exc |-> "JSONDecodeError", value |-> <<>>]
    ELSE
        LET data == resp.body
            a == In("response", data)
        IN  IF a.exc # "none" THEN [exc |-> a.exc, value |-> <<>>]
            ELSE IF ~a.value THEN [exc |-> "none", value |-> <<>>]
            ELSE
                LET r == Subscript(data, "response")
                    b == IF r.exc = "none" THEN In("holidays", r.value) ELSE [exc |-> r.exc, value |-> FALSE]
                IN  IF b.exc # "none" THEN [exc |-> b.exc, value |-> <<>>]
                    ELSE IF ~b.value THEN [exc |-> "none", value |-> <<>>]
                    ELSE
                        LET h == Subscript(r.value, "holidays")
                            items == IF h.exc = "none" THEN Iterate(h.value) ELSE [exc |-> h.exc, value |-> <<>>]
                        IN  items

\* lines 36-41: the classes the three except clauses catch
fetch_catches_requests_only(exc) == exc \in RequestExceptions

fetch_catches(exc) ==
    \/ exc = "HTTPError"
    \/ exc \in RequestExceptions
    \/ exc \in Exceptions

fetch_holidays(resp) ==
    LET r == fetch_try(resp)
    IN  IF r.exc = "none" THEN r
        ELSE IF fetch_catches(r.exc) THEN [exc |-> "none", value |-> <<>>]
        ELSE r

(***************************************************************************)
(* filter_holidays_by_date (lines 46-63).                                  *)
(***************************************************************************)
\* holiday['date']['datetime'][part]
DatePart(holiday, part) ==
    LET a == Subscript(holiday, "date")
        b == IF a.exc = "none" THEN Subscript(a.value, "datetime") ELSE a
    IN  IF b.exc = "none" THEN Subscript(b.value, part) ELSE b

\* lines 51-55
holiday_date(holiday) ==
    LET y == DatePart(holiday, "year")
        m == DatePart(holiday, "month")
        d == DatePart(holiday, "day")
    IN  IF y.exc # "none" THEN [exc |-> y.exc, value |-> <<>>]
        ELSE IF m.exc # "none" THEN [exc |-> m.exc, value |-> <<>>]
        ELSE IF d.exc # "none" THEN [exc |-> d.exc, value |-> <<>>]
        ELSE IF y.value.t # "int" \/ m.value.t # "int" \/ d.value.t # "int"
        THEN [exc |-> "TypeError", value |-> <<>>]
        ELSE datetime(y.value.v, m.value.v, d.value.v)

\* line 56
in_window_exclusive_end(hd, s, e) == DateLE(s, hd) /\ DateLT(hd, e)

in_window(hd, s, e) == DateLE(s, hd) /\ DateLE(hd, e)

\* lines 58-61: the classes the two except clauses catch
filter_catches_value_error_only(exc) == exc = "ValueError"

filter_catches(exc) == exc = "KeyError" \/ exc \in Exceptions

RECURSIVE filter_loop(_, _, _, _)
\* lines 49-61, from the records still to visit and the list built so far
filter_loop(rest, s, e, acc) ==
    IF rest = <<>> THEN [exc |-> "none", value |-> acc]
    ELSE
        LET hd == holiday_date(Head(rest))
        IN  IF hd.exc = "none"
            THEN filter_loop(Tail(rest), s, e,
                             IF in_window(hd.value, s, e) THEN Append(acc, Head(rest)) ELSE acc)
            ELSE IF filter_catches(hd.exc) THEN filter_loop(Tail(rest), s, e, acc)
            ELSE [exc |-> hd.exc, value |-> acc]

RECURSIVE remove_loop(_, _, _, _)
\* a filter that removes from the list it iterates over
remove_loop(hs, i, s, e) ==
    IF i > Len(hs) THEN hs
    ELSE
        LET hd == holiday_date(hs[i])
        IN  IF hd.exc = "none" /\ in_window(hd.value, s, e)
            THEN remove_loop(hs, i + 1, s, e)
            ELSE remove_loop(SubSeq(hs, 1, i - 1) \o SubSeq(hs, i + 1, Len(hs)), i + 1, s, e)

filter_in_place(hs, s, e) == [exc |-> "none", value |-> remove_loop(hs, 1, s, e)]

filter_holidays_by_date(hs, s, e) == filter_loop(hs, s, e, <<>>)

(***************************************************************************)
(* json.dumps (line 70): one line of text per record.                      *)
(***************************************************************************)
Quote == "\""

\* a character inside a JSON string
escape_raw(c) == <<c>>

escape(c) ==
    IF c = Quote THEN <<"\\", Quote>>
    ELSE IF c = "\\" THEN <<"\\", "\\">>
    ELSE IF c = "\n" THEN <<"\\", "n">>
    ELSE <<c>>

dumps_str(s) == <<Quote>> \o Concat([i \in 1..Len(s) |-> escape(s[i])]) \o <<Quote>>

RECURSIVE Join(_)
\* ", ".join(parts)
Join(parts) ==
    IF parts = <<>> THEN <<>>
    ELSE IF Len(parts) = 1 THEN parts[1]
    ELSE parts[1] \o <<",", " ">> \o Join(Tail(parts))

RECURSIVE dumps(_)
dumps(x) ==
    IF x.t = "obj"
    THEN <<"{">> \o Join([i \in 1..Len(x.kv) |->
             dumps_str(KeyText[x.kv[i][1]]) \o <<":", " ">> \o dumps(x.kv[i][2])]) \o <<"}">>
    ELSE IF x.t = "arr"
    THEN <<"[">> \o Join([i \in 1..Len(x.items) |-> dumps(x.items[i])]) \o <<"]">>
    ELSE IF x.t = "str" THEN dumps_str(x.v)
    ELSE IF x.t = "int" THEN Decimal(x.v)
    ELSE <<"n", "u", "l", "l">>

(***************************************************************************)
(* save_to_file (lines 66-75).  io is what the file system does: "ok",     *)
(* "open" (open() raises IOError and the file is untouched) or "write"     *)
(* (a write raises IOError after `written` whole records).                 *)
(***************************************************************************)
\* what lines 69-70 write for the first n records
file_text(data, n) == Concat([i \in 1..n |-> dumps(data[i]) \o <<"\n">>])

Put(fs, name, text) ==
    [f \in DOMAIN fs \cup {name} |-> IF f = name THEN text ELSE fs[f]]

\* open(filename, 'w'): what the file holds once opened
open_truncate(fs, name) == <<>>

\* lines 72-75: the classes the two except clauses catch
save_catches_nothing(exc) == FALSE

save_catches(exc) == exc = "IOError" \/ exc \in Exceptions

save_to_file(name, data, io, written, fs) ==
    LET r == IF io = "open" THEN [exc |-> "IOError", files |-> fs]
             ELSE IF io = "write"
             THEN [exc |-> "IOError",
                   files |-> Put(fs, name, open_truncate(fs, name) \o file_text(data, written))]
             ELSE [exc |-> "none",
                   files |-> Put(fs, name, open_truncate(fs, name) \o file_text(data, Len(data)))]
    IN  IF r.exc # "none" /\ save_catches(r.exc)
        THEN [exc |-> "none", ok |-> FALSE, files |-> r.files]
        ELSE [exc |-> r.exc, ok |-> r.exc = "none", files |-> r.files]

(***************************************************************************)
(* strftime('%d-%m-%Y') and the file name of line 106.  %Y of a year below *)
(* 1000 is zero-padded to four digits by some C libraries and not by       *)
(* others (glibc): padYear is the library's choice.                        *)
(***************************************************************************)
Pad2(n) == IF n < 10 THEN <<"0">> \o Decimal(n) ELSE Decimal(n)

Pad4(n) == [i \in 1..(4 - Len(Decimal(n))) |-> "0"] \o Decimal(n)

strftime(d, padYear) ==
    Pad2(d[3]) \o <<"-">> \o Pad2(d[2]) \o <<"-">>
        \o (IF padYear THEN Pad4(d[1]) ELSE Decimal(d[1]))

file_name(country, s, e, padYear) ==
    country \o <<"_">> \o strftime(s, padYear) \o <<"_">> \o strftime(e, padYear)
        \o <<".", "t", "x", "t">>

(***************************************************************************)
(* Inputs: the arguments of main and the answers of the provider.          *)
(***************************************************************************)
Countries == {<<"U", "A">>, <<"U", "S">>}

CountryLists == UNION {[1..n -> Countries] : n \in 0..MaxCountries}

DateStrings ==
    {<<"2", "0", "2", "3", "-", "1", "2", "-", "2", "0">>,
     <<"2", "0", "2", "4", "-", "0", "1", "-", "0", "5">>,
     <<"2", "0", "2", "4", "-", "1", "-", "5">>,
     <<"2", "0", "2", "4", "-", "0", "1", "-", " ", "5">>,
     <<"2", "0", "2", "4", "-", "0", "1", "-", "0", "1">>,
     <<"2", "0", "2", "4", "-", "0", "5", "-", "1", "0">>,
     <<"0", "9", "9", "9", "-", "1", "2", "-", "3", "1">>,
     <<"2", "0", "2", "4", "-", "1", "3", "-", "4", "0">>,
     <<"2", "0", "2", "4", "-", "0", "2", "-", "3", "0">>,
     <<"2", "0", "2", "3", "-", "0", "2", "-", "2", "9">>,
     <<"2", "0", "2", "4", "-", "0", "2", "-", "2", "9">>,
     <<"0", "0", "0", "0", "-", "0", "1", "-", "0", "1">>,
     <<"2", "0", "2", "4", "-", "0", "1", "-", "3", "2">>,
     <<"2", "0", "2", "4", "-", "0", "-", "5">>,
     <<"2", "0", "2", "4", "-", "0", "1", "-", "0", "5", " ">>,
     <<"2", "0", "2", "4", "/", "0", "1", "/", "0", "5">>,
     <<"2", "0", "2", "4", "0", "1", "0", "5">>,
     <<"2", "4", "-", "0", "1", "-", "0", "5">>,
     <<"n", "o", "t", "-", "a", "-", "d", "a", "t", "e">>,
     <<>>}

\* the date strings of the runs of main: a window over two years, one
\* within a year, one of a single day written without padding, one before
\* the year 1000; then start after end, a malformed start, a malformed end
Inputs ==
    {<<<<"2", "0", "2", "3", "-", "1", "2", "-", "2", "0">>,
       <<"2", "0", "2", "4", "-", "0", "1", "-", "0", "5">>>>,
     <<<<"2", "0", "2", "4", "-", "0", "1", "-", "0", "1">>,
       <<"2", "0", "2", "4", "-", "0", "5", "-", "1", "0">>>>,
     <<<<"2", "0", "2", "4", "-", "1", "-", "5">>,
       <<"2", "0", "2", "4", "-", "0", "1", "-", " ", "5">>>>,
     <<<<"0", "9", "9", "9", "-", "1", "2", "-", "3", "1">>,
       <<"0", "9", "9", "9", "-", "1", "2", "-", "3", "1">>>>,
     <<<<"2", "0", "2", "4", "-", "0", "5", "-", "1", "0">>,
       <<"2", "0", "2", "4", "-", "0", "1", "-", "0", "1">>>>,
     <<<<"2", "0", "2", "4", "-", "1", "3", "-", "4", "0">>,
       <<"2", "0", "2", "4", "-", "0", "1", "-", "0", "5">>>>,
     <<<<"2", "0", "2", "3", "-", "1", "2", "-", "2", "0">>,
       <<"n", "o", "t", "-", "a", "-", "d", "a", "t", "e">>>>}

\* a holiday record as the provider sends it
Holiday(name, y, m, d) ==
    JObj(<<<<"name", JStr(name)>>,
           <<"date", JObj(<<<<"datetime",
                 JObj(<<<<"year", JInt(y)>>, <<"month", JInt(m)>>, <<"day", JInt(d)>>>>)>>>>)>>>>)

DatedHolidays ==
    {Holiday(<<"A">>, 2023, 12, 19), Holiday(<<"B">>, 2023, 12, 20),
     Holiday(<<"C", "\n", "\"">>, 2024, 1, 5), Holiday(<<"D">>, 2024, 1, 6)}

\* records the filter cannot date: no 'date', no 'datetime', no 'day',
\* a null 'date', a month outside the calendar
UndatedHolidays ==
    {JObj(<<<<"name", JStr(<<"E">>)>>>>),
     JObj(<<<<"name", JStr(<<"F">>)>>, <<"date", JObj(<<<<"iso", JStr(<<"x">>)>>>>)>>>>),
     JObj(<<<<"name", JStr(<<"G">>)>>,
            <<"date", JObj(<<<<"datetime", JObj(<<<<"year", JInt(2024)>>, <<"month", JInt(1)>>>>)>>>>)>>>>),
     JObj(<<<<"name", JStr(<<"H">>)>>, <<"date", JNull>>>>),
     Holiday(<<"I">>, 2024, 13, 5)}

HolidayPool == DatedHolidays \cup UndatedHolidays

ListsOf(S, n) == UNION {[1..k -> S] : k \in 0..n}

HolidaysBody(hs) ==
    JObj(<<<<"meta", JObj(<<>>)>>, <<"response", JObj(<<<<"holidays", JArr(hs)>>>>)>>>>)

\* bodies without a list at response.holidays: not JSON, a JSON array, no
\* 'response', an empty array as 'response', no 'holidays', a null 'holidays'
OtherBodies ==
    {[t |-> "bad"],
     JArr(<<>>),
     JObj(<<<<"meta", JObj(<<>>)>>>>),
     JObj(<<<<"meta", JObj(<<>>)>>, <<"response", JArr(<<>>)>>>>),
     JObj(<<<<"meta", JObj(<<>>)>>, <<"response", JObj(<<>>)>>>>),
     JObj(<<<<"response", JObj(<<<<"holidays", JNull>>>>)>>>>)}

Statuses == {200, 300, 404, 500}

NoAnswer == [status |-> 0, body |-> [t |-> "bad"]]

\* every answer of the model: no answer at all, or a status with a body
Responses ==
    {NoAnswer} \cup
    {[status |-> st, body |-> b] :
        st \in Statuses,
        b \in OtherBodies \cup {HolidaysBody(hs) : hs \in ListsOf(DatedHolidays, MaxHolidays)}}

\* the answers the provider gives in the runs of main
ProviderAnswers ==
    {[status |-> 404, body |-> [t |-> "bad"]],
     [status |-> 200, body |-> JObj(<<<<"meta", JObj(<<>>)>>, <<"response", JArr(<<>>)>>>>)],
     [status |-> 200, body |-> HolidaysBody(<<Holiday(<<"B">>, 2023, 12, 20)>>)],
     [status |-> 200, body |-> HolidaysBody(<<Holiday(<<"C", "\n", "\"">>, 2024, 1, 5)>>)]}

(***************************************************************************)
(* main (lines 90-107).                                                    *)
(***************************************************************************)
\* a call of main's; n is the number of records save_to_file was given
FetchEvent(country, y) ==
    [op |-> "fetch", country |-> country, year |-> y, filename |-> <<>>, n |-> 0, ok |-> TRUE]

SaveEvent(country, name, n, ok) ==
    [op |-> "save", country |-> country, year |-> 0, filename |-> name, n |-> n, ok |-> ok]

\* line 93: the class main's except clause catches
main_catches_nothing(exc) == FALSE

main_catches(exc) == exc = "ValueError"

\* lines 91-94
Main ==
    /\ pc = "main"
    /\ LET r == validate_dates(start_date, end_date)
       IN  IF r.exc = "none"
           THEN /\ validated' = "ok"
                /\ start_date_obj' = r.value[1]
                /\ end_date_obj' = r.value[2]
                /\ pc' = "loop"
                /\ raised' = raised
           ELSE /\ validated' = r.exc
                /\ UNCHANGED <<start_date_obj, end_date_obj>>
                /\ IF main_catches(r.exc)
                   THEN pc' = "done" /\ raised' = raised
                   ELSE pc' = "crashed" /\ raised' = r.exc
    /\ UNCHANGED <<countries_list, start_date, end_date, idx, year, all_holidays,
                   holidays, filtered_holidays, filename, response, provider,
                   files, trace, requests>>

\* lines 96-99: the next country, if any
NextCountry ==
    /\ pc = "loop"
    /\ idx < Len(countries_list)
    /\ idx' = idx + 1
    /\ all_holidays' = <<>>
    /\ year' = start_date_obj[1]
    /\ pc' = "fetch"
    /\ UNCHANGED <<countries_list, start_date, end_date, validated, start_date_obj,
                   end_date_obj, holidays, filtered_holidays, filename, response,
                   provider, files, trace, raised, requests>>

\* line 96 with the list exhausted: main returns
Return ==
    /\ pc = "loop"
    /\ idx = Len(countries_list)
    /\ pc' = "done"
    /\ UNCHANGED <<countries_list, start_date, end_date, validated, start_date_obj,
                   end_date_obj, idx, year, all_holidays, holidays, filtered_holidays,
                   filename, response, provider, files, trace, raised, requests>>

\* line 101: the years still to fetch after year y
years_exclusive(y, endYear) == y + 1 < endYear

more_years(y, endYear) == y + 1 < endYear + 1

\* lines 101-103: one turn of the inner loop
Fetch ==
    /\ pc = "fetch"
    /\ \E resp \in provider :
        LET r == fetch_holidays(resp)
        IN  /\ response' = resp
            /\ requests' = requests + 1
            /\ trace' = Append(trace, FetchEvent(countries_list[idx], year))
            /\ IF r.exc = "none"
               THEN /\ holidays' = r.value
                    /\ all_holidays' = all_holidays \o r.value
                    /\ year' = year + 1
                    /\ pc' = IF more_years(year, end_date_obj[1]) THEN "fetch" ELSE "filter"
                    /\ raised' = raised
               ELSE /\ UNCHANGED <<holidays, all_holidays, year>>
                    /\ pc' = "crashed"
                    /\ raised' = r.exc
    /\ UNCHANGED <<countries_list, start_date, end_date, validated, start_date_obj,
                   end_date_obj, idx, filtered_holidays, filename, provider, files>>

\* line 105
Filter ==
    /\ pc = "filter"
    /\ LET r == filter_holidays_by_date(all_holidays, start_date_obj, end_date_obj)
       IN  IF r.exc = "none"
           THEN filtered_holidays' = r.value /\ pc' = "save" /\ raised' = raised
           ELSE filtered_holidays' = filtered_holidays /\ pc' = "crashed" /\ raised' = r.exc
    /\ UNCHANGED <<countries_list, start_date, end_date, validated, start_date_obj,
                   end_date_obj, idx, year, all_holidays, holidays, filename,
                   response, provider, files, trace, requests>>

\* the ways a write can go: it succeeds, open() fails, or a write fails
\* after some of the records
Outcomes(data) ==
    {<<"ok", Len(data)>>, <<"open", 0>>} \cup {<<"write", k>> : k \in 0..(Len(data) - 1)}

\* lines 106-107
Save ==
    /\ pc = "save"
    /\ \E padYear \in BOOLEAN, o \in Outcomes(filtered_holidays) :
        LET name == file_name(countries_list[idx], start_date_obj, end_date_obj, padYear)
            r == save_to_file(name, filtered_holidays, o[1], o[2], files)
        IN  /\ filename' = name
            /\ files' = r.files
            /\ trace' = Append(trace, SaveEvent(countries_list[idx], name, Len(filtered_holidays), r.ok))
            /\ IF r.exc = "none"
               THEN pc' = "loop" /\ raised' = raised
               ELSE pc' = "crashed" /\ raised' = r.exc
    /\ UNCHANGED <<countries_list, start_date, end_date, validated, start_date_obj,
                   end_date_obj, idx, year, all_holidays, holidays, filtered_holidays,
                   response, provider, requests>>

NoFiles == [f \in {} |-> <<>>]

\* main is called with a list of countries and two date strings
Init ==
    /\ pc = "main"
    /\ countries_list \in CountryLists
    /\ \E p \in Inputs : start_date = p[1] /\ end_date = p[2]
    /\ validated = "pending"
    /\ start_date_obj = <<>>
    /\ end_date_obj = <<>>
    /\ idx = 0
    /\ year = 0
    /\ all_holidays = <<>>
    /\ holidays = <<>>
    /\ filtered_holidays = <<>>
    /\ filename = <<>>
    /\ response = NoAnswer
    /\ provider = ProviderAnswers
    /\ files = NoFiles
    /\ trace = <<>>
    /\ requests = 0
    /\ raised = "none"

Next == Main \/ NextCountry \/ Return \/ Fetch \/ Filter \/ Save

Spec == Init /\ [][Next]_vars

(***************************************************************************)
(* The pipeline from line 105 on, started on any accumulated list: the     *)
(* last fetch returned the whole list, and the output file already exists  *)
(* from an earlier run.                                                    *)
(***************************************************************************)
Windows ==
    {<<<<"2", "0", "2", "3", "-", "1", "2", "-", "2", "0">>,
       <<"2", "0", "2", "4", "-", "0", "1", "-", "0", "5">>>>,
     <<<<"2", "0", "2", "4", "-", "1", "-", "5">>,
       <<"2", "0", "2", "4", "-", "0", "1", "-", "0", "5">>>>,
     <<<<"2", "0", "2", "4", "-", "0", "1", "-", "0", "1">>,
       <<"2", "0", "2", "4", "-", "0", "5", "-", "1", "0">>>>}

StaleText == <<"{", "}", "\n">>

InitFilter ==
    /\ pc = "filter"
    /\ countries_list = <<<<"U", "A">>>>
    /\ \E w \in Windows :
        /\ start_date = w[1]
        /\ end_date = w[2]
        /\ start_date_obj = validate_dates(w[1], w[2]).value[1]
        /\ end_date_obj = validate_dates(w[1], w[2]).value[2]
    /\ validated = "ok"
    /\ idx = 1
    /\ year = end_date_obj[1] + 1
    /\ all_holidays \in ListsOf(HolidayPool, MaxList)
    /\ holidays = all_holidays
    /\ filtered_holidays = <<>>
    /\ filename = <<>>
    /\ response = [status |-> 200, body |-> HolidaysBody(all_holidays)]
    /\ provider = {response}
    /\ files = Put(NoFiles, file_name(<<"U", "A">>, start_date_obj, end_date_obj, TRUE), StaleText)
    /\ trace = [i \in 1..(end_date_obj[1] - start_date_obj[1] + 1) |->
                    FetchEvent(<<"U", "A">>, start_date_obj[1] + i - 1)]
    /\ requests = Len(trace)
    /\ raised = "none"

NextFilter == Filter \/ Save \/ Return

SpecFilter == InitFilter /\ [][NextFilter]_vars

(***************************************************************************)
(* The inner loop of lines 101-103, with every answer the provider can     *)
(* give.                                                                   *)
(***************************************************************************)
InitFetch ==
    /\ pc = "fetch"
    /\ countries_list \in {<<c>> : c \in Countries}
    /\ \E w \in Windows :
        /\ start_date = w[1]
        /\ end_date = w[2]
        /\ start_date_obj = validate_dates(w[1], w[2]).value[1]
        /\ end_date_obj = validate_dates(w[1], w[2]).value[2]
    /\ validated = "ok"
    /\ idx = 1
    /\ year = start_date_obj[1]
    /\ all_holidays = <<>>
    /\ holidays = <<>>
    /\ filtered_holidays = <<>>
    /\ filename = <<>>
    /\ response = NoAnswer
    /\ provider = Responses
    /\ files = NoFiles
    /\ trace = <<>>
    /\ requests = 0
    /\ raised = "none"

NextFetch == Fetch

SpecFetch == InitFetch /\ [][NextFetch]_vars

(***************************************************************************)
(* The try of lines 91-94 alone, on every pair of date strings.            *)
(***************************************************************************)
InitValidate ==
    /\ pc = "main"
    /\ countries_list = <<<<"U", "A">>>>
    /\ start_date \in DateStrings
    /\ end_date \in DateStrings
    /\ validated = "pending"
    /\ start_date_obj = <<>>
    /\ end_date_obj = <<>>
    /\ idx = 0
    /\ year = 0
    /\ all_holidays = <<>>
    /\ holidays = <<>>
    /\ filtered_holidays = <<>>
    /\ filename = <<>>
    /\ response = NoAnswer
    /\ provider = ProviderAnswers
    /\ files = NoFiles
    /\ trace = <<>>
    /\ requests = 0
    /\ raised = "none"

NextValidate == Main

SpecValidate == InitValidate /\ [][NextValidate]_vars

(***************************************************************************)
(* What the claims speak of, stated apart from the code's own operators:   *)
(* the proleptic Gregorian day number of a date, and the reading of a date *)
(* string by position.                                                     *)
(***************************************************************************)
MonthDays == <<31, 28, 31, 30, 31, 30, 31, 31, 30, 31, 30, 31>>

LeapYear(y) == (y % 400 = 0) \/ (y % 4 = 0 /\ y % 100 # 0)

LengthOfMonth(y, m) == IF m = 2 /\ LeapYear(y) THEN 29 ELSE MonthDays[m]

RECURSIVE DaysBeforeMonth(_, _)
DaysBeforeMonth(y, m) ==
    IF m = 1 THEN 0 ELSE DaysBeforeMonth(y, m - 1) + LengthOfMonth(y, m - 1)

\* the day number of y-m-d (0001-01-01 is day 1)
Ordinal(d) ==
    LET y == d[1] - 1
    IN  y * 365 + (y \div 4) - (y \div 100) + (y \div 400) + DaysBeforeMonth(d[1], d[2]) + d[3]

IsCalendarDate(d) ==
    d[1] \in 1..9999 /\ d[2] \in 1..12 /\ d[3] \in 1..LengthOfMonth(d[1], d[2])

AllDigits(s) == s # <<>> /\ \A i \in 1..Len(s) : IsDigit(s[i])

\* the numbers a text YYYY-M..-D.. holds when its month has ml characters
Fields(s, ml) ==
    <<IntOf(SubSeq(s, 1, 4)), IntOf(SubSeq(s, 6, 5 + ml)),
      IntOf(IF s[7 + ml] = " " THEN SubSeq(s, 8 + ml, Len(s)) ELSE SubSeq(s, 7 + ml, Len(s)))>>

\* s is YYYY-MM-DD exactly: four, two and two digits, a date of the calendar
WellFormed(s) ==
    /\ Len(s) = 10
    /\ s[5] = "-" /\ s[8] = "-"
    /\ AllDigits(SubSeq(s, 1, 4)) /\ AllDigits(SubSeq(s, 6, 7)) /\ AllDigits(SubSeq(s, 9, 10))
    /\ IsCalendarDate(Fields(s, 2))

\* s is a four-digit year, a month and a day of one or two digits each (the
\* day's leading zero may be a space), separated by "-", a date of the calendar
Readable(s, ml) ==
    /\ Len(s) \in {6 + ml + 1, 6 + ml + 2}
    /\ AllDigits(SubSeq(s, 1, 4)) /\ s[5] = "-" /\ s[6 + ml] = "-"
    /\ AllDigits(SubSeq(s, 6, 5 + ml))
    /\ \/ AllDigits(SubSeq(s, 7 + ml, Len(s)))
       \/ Len(s) = 8 + ml /\ s[7 + ml] = " " /\ IsDigit(s[8 + ml])
    /\ IsCalendarDate(Fields(s, ml))

Accepted(s) == \E ml \in {1, 2} : Readable(s, ml)

DateOf(s) == Fields(s, CHOOSE ml \in {1, 2} : Readable(s, ml))

\* the window main was given is invalid
InvalidWindow ==
    \/ ~Accepted(start_date)
    \/ ~Accepted(end_date)
    \/ Ordinal(DateOf(start_date)) > Ordinal(DateOf(end_date))

IsPrefix(a, b) == Len(a) <= Len(b) /\ SubSeq(b, 1, Len(a)) = a

Last(s) == s[Len(s)]

IsFetch(ev) == ev.op = "fetch"

IsSave(ev) == ev.op = "save"

(***************************************************************************)
(* C1: when the window is invalid (a date string malformed, or start after *)
(* end), main returns at once: no fetch_holidays call, no save_to_file     *)
(* call, no request and no file, for any list of countries.                *)
(***************************************************************************)
C1_InvalidWindowAborts ==
    InvalidWindow =>
        /\ pc \in {"main", "done"}
        /\ trace = <<>>
        /\ requests = 0
        /\ files = NoFiles
        /\ raised = "none"

C1_Witness ==
    /\ pc = "done"
    /\ start_date = <<"2", "0", "2", "4", "-", "0", "5", "-", "1", "0">>
    /\ end_date = <<"2", "0", "2", "4", "-", "0", "1", "-", "0", "1">>
    /\ Len(countries_list) = 2
    /\ validated = "ValueError"
    /\ trace = <<>>

(***************************************************************************)
(* C2 as stated: validate_dates succeeds exactly when both strings are     *)
(* well-formed YYYY-MM-DD dates and start <= end, then returns the two     *)
(* dates unchanged in value, and otherwise fails with a ValueError.        *)
(***************************************************************************)
C2_Stated ==
    pc # "main" =>
        /\ validated = "ok" <=>
              /\ WellFormed(start_date)
              /\ WellFormed(end_date)
              /\ Ordinal(DateOf(start_date)) <= Ordinal(DateOf(end_date))
        /\ validated = "ok" =>
              start_date_obj = DateOf(start_date) /\ end_date_obj = DateOf(end_date)
        /\ validated # "ok" => validated = "ValueError"

(***************************************************************************)
(* C2 amended: validate_dates succeeds exactly when both strings read as a *)
(* four-digit year, a month and a day of one or two digits each (padding   *)
(* optional, the day's padding possibly a space) naming a calendar date,   *)
(* and start <= end (start = end included); it then returns the two dates  *)
(* unchanged in value, and otherwise fails with a ValueError.              *)
(***************************************************************************)
C2_ValidateDates ==
    pc # "main" =>
        /\ validated = "ok" <=>
              /\ Accepted(start_date)
              /\ Accepted(end_date)
              /\ Ordinal(DateOf(start_date)) <= Ordinal(DateOf(end_date))
        /\ validated = "ok" =>
              start_date_obj = DateOf(start_date) /\ end_date_obj = DateOf(end_date)
        /\ validated # "ok" => validated = "ValueError"

C2_Witness ==
    /\ validated = "ok"
    /\ start_date = <<"2", "0", "2", "4", "-", "1", "-", "5">>
    /\ end_date = <<"2", "0", "2", "4", "-", "0", "1", "-", "0", "5">>
    /\ start_date_obj = <<2024, 1, 5>>
    /\ end_date_obj = <<2024, 1, 5>>

(***************************************************************************)
(* The calls a run on a valid window is to make.                           *)
(***************************************************************************)
FirstYear == start_date_obj[1]

NumYears == end_date_obj[1] - start_date_obj[1] + 1

\* fetch_holidays calls as <<country, year>>, in the order made
FetchCalls ==
    LET f == SelectSeq(trace, IsFetch)
    IN  [i \in 1..Len(f) |-> <<f[i].country, f[i].year>>]

SaveCalls == SelectSeq(trace, IsSave)

\* country by country in the order given, the years ascending
ExpectedFetches ==
    [k \in 1..(Len(countries_list) * NumYears) |->
        <<countries_list[((k - 1) \div NumYears) + 1], FirstYear + ((k - 1) % NumYears)>>]

FailedFetch(resp) == fetch_try(resp).exc # "none"

(***************************************************************************)
(* C3: once the dates validate nothing aborts the run, whatever fetches    *)
(* and writes fail: no exception escapes, main is always at a step of its  *)
(* loops with a country and a year still in range, a failed fetch returns  *)
(* the empty list, and when main returns every (country, year) pair was    *)
(* fetched and a write was attempted for every country.                    *)
(***************************************************************************)
C3_OnlyValidationAborts ==
    validated = "ok" =>
        /\ raised = "none" /\ pc # "crashed"
        /\ pc \in {"loop", "fetch", "filter", "save", "done"}
        /\ pc = "loop" => idx \in 0..Len(countries_list)
        /\ pc \in {"fetch", "filter", "save"} => idx \in 1..Len(countries_list)
        /\ pc = "fetch" => year \in FirstYear..end_date_obj[1]
        /\ (trace # <<>> /\ IsFetch(Last(trace)) /\ FailedFetch(response)) => holidays = <<>>
        /\ pc = "done" =>
              /\ \A i \in 1..Len(countries_list) :
                    \A y \in FirstYear..end_date_obj[1] :
                        \E k \in 1..Len(trace) :
                            /\ IsFetch(trace[k])
                            /\ trace[k].country = countries_list[i]
                            /\ trace[k].year = y
              /\ Len(FetchCalls) = Len(countries_list) * NumYears
              /\ Len(SaveCalls) = Len(countries_list)

\* the first country's fetches and its write all failed, and the second
\* country was still fetched and written
C3_Witness ==
    /\ pc = "done"
    /\ validated = "ok"
    /\ countries_list = <<<<"U", "A">>, <<"U", "S">>>>
    /\ NumYears = 2
    /\ ~SaveCalls[1].ok
    /\ SaveCalls[2].ok
    /\ FailedFetch(response)
    /\ files[filename] = <<>>

(***************************************************************************)
(* C4: on a valid window the fetch_holidays calls run country by country   *)
(* in the order of the list, repeated codes included, and for each country *)
(* once per year from start.year to end.year, ascending: N calls per       *)
(* country for a window over N calendar years.                             *)
(***************************************************************************)
C4_FetchOrder ==
    validated = "ok" =>
        /\ IsPrefix(FetchCalls, ExpectedFetches)
        /\ requests = Len(FetchCalls)
        /\ pc = "done" => FetchCalls = ExpectedFetches
        /\ pc = "filter" => Len(FetchCalls) = idx * NumYears

C4_Witness ==
    /\ pc = "done"
    /\ start_date_obj = <<2023, 12, 20>>
    /\ end_date_obj = <<2024, 1, 5>>
    /\ countries_list = <<<<"U", "S">>, <<"U", "S">>>>
    /\ FetchCalls = <<<<<<"U", "S">>, 2023>>, <<<<"U", "S">>, 2024>>,
                      <<<<"U", "S">>, 2023>>, <<<<"U", "S">>, 2024>>>>

C4_WitnessOneYear ==
    /\ pc = "done"
    /\ start_date_obj = <<2024, 1, 1>>
    /\ end_date_obj = <<2024, 5, 10>>
    /\ countries_list = <<<<"U", "S">>, <<"U", "A">>>>
    /\ FetchCalls = <<<<<<"U", "S">>, 2024>>, <<<<"U", "A">>, 2024>>>>

(***************************************************************************)
(* The whole sequence of calls of a run on a valid window: per country its *)
(* fetches, then its write.                                                *)
(***************************************************************************)
CallsMade == [i \in 1..Len(trace) |-> <<trace[i].op, trace[i].country, trace[i].year>>]

ExpectedCalls ==
    [k \in 1..(Len(countries_list) * (NumYears + 1)) |->
        LET c == countries_list[((k - 1) \div (NumYears + 1)) + 1]
            r == (k - 1) % (NumYears + 1)
        IN  IF r < NumYears THEN <<"fetch", c, FirstYear + r>> ELSE <<"save", c, 0>>]

TwoDigits(n) == <<Digits[(n \div 10) + 1], Digits[(n % 10) + 1]>>

FourDigits(n) == TwoDigits(n \div 100) \o TwoDigits(n % 100)

\* DD-MM-YYYY
DayMonthYear(d) == TwoDigits(d[3]) \o <<"-">> \o TwoDigits(d[2]) \o <<"-">> \o FourDigits(d[1])

\* DD-MM-Y, the year without leading zeros
DayMonthBareYear(d) == TwoDigits(d[3]) \o <<"-">> \o TwoDigits(d[2]) \o <<"-">> \o Decimal(d[1])

PaddedName(country) ==
    country \o <<"_">> \o DayMonthYear(DateOf(start_date)) \o <<"_">>
        \o DayMonthYear(DateOf(end_date)) \o <<".", "t", "x", "t">>

BareName(country) ==
    country \o <<"_">> \o DayMonthBareYear(DateOf(start_date)) \o <<"_">>
        \o DayMonthBareYear(DateOf(end_date)) \o <<".", "t", "x", "t">>

\* the calls are those expected, and the last write, if it succeeded, left
\* exactly its records in its file
WritesInTurn ==
    /\ IsPrefix(CallsMade, ExpectedCalls)
    /\ pc = "done" => CallsMade = ExpectedCalls
    /\ \A k \in 1..Len(trace) :
          IsSave(trace[k]) =>
              \* the write follows the country's fetches, whatever they returned
              /\ k > NumYears
              /\ \A j \in (k - NumYears)..(k - 1) :
                    IsFetch(trace[j]) /\ trace[j].country = trace[k].country
    /\ (trace # <<>> /\ IsSave(Last(trace)) /\ Last(trace).ok) =>
          /\ Last(trace).filename \in DOMAIN files
          /\ files[Last(trace).filename] = file_text(filtered_holidays, Len(filtered_holidays))

(***************************************************************************)
(* C10 as stated: on a valid window save_to_file is attempted once per     *)
(* entry of the country list, after that country's fetches and before the  *)
(* next country's, to {country}_{start DD-MM-YYYY}_{end DD-MM-YYYY}.txt,   *)
(* also when the fetches gave nothing (an empty file), and a repeated      *)
(* country is fetched again and its file overwritten.                      *)
(***************************************************************************)
C10_Stated ==
    validated = "ok" =>
        /\ WritesInTurn
        /\ \A k \in 1..Len(trace) :
              IsSave(trace[k]) => trace[k].filename = PaddedName(trace[k].country)

(***************************************************************************)
(* C10 amended: as stated, with the two dates of the name formatted by     *)
(* strftime('%d-%m-%Y'): DD-MM-YYYY for a year from 1000 on, and for an    *)
(* earlier year either that or the year without its leading zeros, as the  *)
(* C library prints it.                                                    *)
(***************************************************************************)
C10_SaveOncePerCountry ==
    validated = "ok" =>
        /\ WritesInTurn
        /\ \A k \in 1..Len(trace) :
              IsSave(trace[k]) =>
                  \/ trace[k].filename = PaddedName(trace[k].country)
                  \/ /\ DateOf(start_date)[1] < 1000 \/ DateOf(end_date)[1] < 1000
                     /\ trace[k].filename = BareName(trace[k].country)

\* a repeated country: its first write left a record in the file, its
\* fetches then all came back empty and the second write emptied the file
C10_Witness ==
    /\ pc = "done"
    /\ validated = "ok"
    /\ countries_list = <<<<"U", "A">>, <<"U", "A">>>>
    /\ NumYears = 2
    /\ Len(SaveCalls) = 2
    /\ SaveCalls[1].ok /\ SaveCalls[1].n = 1
    /\ SaveCalls[2].ok /\ SaveCalls[2].n = 0
    /\ all_holidays = <<>>
    /\ filename = <<"U", "A", "_", "2", "0", "-", "1", "2", "-", "2", "0", "2", "3", "_",
                    "0", "5", "-", "0", "1", "-", "2", "0", "2", "4", ".", "t", "x", "t">>
    /\ DOMAIN files = {filename}
    /\ files[filename] = <<>>

(***************************************************************************)
(* The date a record carries, read off the record's structure.             *)
(***************************************************************************)
HasMember(x, k) == x.t = "obj" /\ k \in Keys(x)

\* the record has date.datetime.year, .month and .day
HasDateFields(h) ==
    /\ HasMember(h, "date")
    /\ HasMember(Lookup(h, "date"), "datetime")
    /\ \A k \in {"year", "month", "day"} : HasMember(Lookup(Lookup(h, "date"), "datetime"), k)

RecordDate(h) ==
    LET dt == Lookup(Lookup(h, "date"), "datetime")
    IN  <<Lookup(dt, "year").v, Lookup(dt, "month").v, Lookup(dt, "day").v>>

\* the record resolves to a date of the calendar
Dated(h) ==
    /\ HasDateFields(h)
    /\ \A k \in {"year", "month", "day"} : Lookup(Lookup(Lookup(h, "date"), "datetime"), k).t = "int"
    /\ IsCalendarDate(RecordDate(h))

FirstDay == Ordinal(DateOf(start_date))

LastDay == Ordinal(DateOf(end_date))

KeptByWindow(h) == Dated(h) /\ Ordinal(RecordDate(h)) \in FirstDay..LastDay

Filtered == pc \in {"save", "loop", "done"}

Occurs(h, s) == \E j \in 1..Len(s) : s[j] = h

(***************************************************************************)
(* C5: the filter returns exactly the records whose date d has             *)
(* start <= d <= end, in their original order: a record dated start or end *)
(* is kept, one dated the day before start or the day after end is not.    *)
(***************************************************************************)
C5_FilterWindow ==
    Filtered =>
        /\ filtered_holidays = SelectSeq(all_holidays, KeptByWindow)
        /\ \A i \in 1..Len(all_holidays) :
              LET h == all_holidays[i]
              IN  Dated(h) =>
                    /\ Ordinal(RecordDate(h)) \in {FirstDay, LastDay} => Occurs(h, filtered_holidays)
                    /\ Ordinal(RecordDate(h)) \in {FirstDay - 1, LastDay + 1} => ~Occurs(h, filtered_holidays)

\* the day after end, end, start: the last two kept, in that order
C5_Witness ==
    /\ pc = "save"
    /\ start_date_obj = <<2023, 12, 20>>
    /\ end_date_obj = <<2024, 1, 5>>
    /\ all_holidays = <<Holiday(<<"D">>, 2024, 1, 6), Holiday(<<"C", "\n", "\"">>, 2024, 1, 5),
                        Holiday(<<"B">>, 2023, 12, 20)>>
    /\ filtered_holidays = <<Holiday(<<"C", "\n", "\"">>, 2024, 1, 5), Holiday(<<"B">>, 2023, 12, 20)>>

(***************************************************************************)
(* C7: filtering the filtered list again, against the same window, returns *)
(* the same list.                                                          *)
(***************************************************************************)
C7_FilterIdempotent ==
    Filtered =>
        filter_holidays_by_date(filtered_holidays, start_date_obj, end_date_obj)
            = [exc |-> "none", value |-> filtered_holidays]

C7_Witness ==
    /\ pc = "save"
    /\ Len(all_holidays) = 3
    /\ Len(filtered_holidays) = 2
    /\ filtered_holidays[1] # filtered_holidays[2]
    /\ ~KeptByWindow(all_holidays[2])

(***************************************************************************)
(* C8: a record without its nested date fields is dropped and the filter   *)
(* goes on: it returns normally, and what it returns is what each other    *)
(* record gives when filtered on its own, in order, wherever the records   *)
(* without date fields sit.                                                *)
(***************************************************************************)
Alone(h) == filter_holidays_by_date(<<h>>, start_date_obj, end_date_obj).value

C8_MissingFieldsSkipped ==
    /\ raised = "none" /\ pc # "crashed"
    /\ Filtered =>
          /\ filtered_holidays =
                Concat([i \in 1..Len(all_holidays) |->
                            IF HasDateFields(all_holidays[i]) THEN Alone(all_holidays[i]) ELSE <<>>])
          /\ \A j \in 1..Len(filtered_holidays) : HasDateFields(filtered_holidays[j])

\* no 'date', then a record in the window, then no 'day'
C8_Witness ==
    /\ pc = "save"
    /\ Len(all_holidays) = 3
    /\ ~HasMember(all_holidays[1], "date")
    /\ KeptByWindow(all_holidays[2])
    /\ HasMember(all_holidays[3], "date") /\ ~HasDateFields(all_holidays[3])
    /\ filtered_holidays = <<all_holidays[2]>>

(***************************************************************************)
(* Reading the output file back: its lines, and each line as JSON.         *)
(***************************************************************************)
RECURSIVE Lines(_)
\* the lines of a text, each ended by "\n" (the last possibly not)
Lines(text) ==
    IF text = <<>> THEN <<>>
    ELSE IF \E i \in 1..Len(text) : text[i] = "\n"
    THEN LET i == CHOOSE i \in 1..Len(text) :
                     text[i] = "\n" /\ \A j \in 1..(i - 1) : text[j] # "\n"
         IN  <<SubSeq(text, 1, i - 1)>> \o Lines(SubSeq(text, i + 1, Len(text)))
    ELSE <<text>>

Fail == [ok |-> FALSE, val |-> JNull, pos |-> 0]

RECURSIVE SkipSpaces(_, _)
SkipSpaces(s, i) == IF At(s, i) = " " THEN SkipSpaces(s, i + 1) ELSE i

RECURSIVE ReadChars(_, _, _)
\* the characters of a JSON string from position i to its closing quote
ReadChars(s, i, acc) ==
    IF i > Len(s) \/ s[i] = "\n" THEN Fail
    ELSE IF s[i] = Quote THEN [ok |-> TRUE, val |-> JStr(acc), pos |-> i + 1]
    ELSE IF s[i] = "\\"
    THEN (IF At(s, i + 1) = "n" THEN ReadChars(s, i + 2, Append(acc, "\n"))
          ELSE IF At(s, i + 1) \in {Quote, "\\"} THEN ReadChars(s, i + 2, Append(acc, s[i + 1]))
          ELSE Fail)
    ELSE ReadChars(s, i + 1, Append(acc, s[i]))

RECURSIVE ReadDigits(_, _)
\* the position after the digits that start at i
ReadDigits(s, i) == IF IsDigit(At(s, i)) THEN ReadDigits(s, i + 1) ELSE i

KeyOf(text) ==
    IF \E k \in DOMAIN KeyText : KeyText[k] = text
    THEN CHOOSE k \in DOMAIN KeyText : KeyText[k] = text
    ELSE "?"

RECURSIVE ReadValue(_, _), ReadMembers(_, _, _), ReadItems(_, _, _)

\* the JSON value that starts at position i
ReadValue(s, i0) ==
    LET i == SkipSpaces(s, i0)
        c == At(s, i)
    IN  IF c = Quote THEN ReadChars(s, i + 1, <<>>)
        ELSE IF IsDigit(c)
        THEN LET j == ReadDigits(s, i)
             IN  [ok |-> TRUE, val |-> JInt(IntOf(SubSeq(s, i, j - 1))), pos |-> j]
        ELSE IF SubSeq(s, i, i + 3) = <<"n", "u", "l", "l">> /\ i + 3 <= Len(s)
        THEN [ok |-> TRUE, val |-> JNull, pos |-> i + 4]
        ELSE IF c = "{"
        THEN (IF At(s, SkipSpaces(s, i + 1)) = "}"
              THEN [ok |-> TRUE, val |-> JObj(<<>>), pos |-> SkipSpaces(s, i + 1) + 1]
              ELSE ReadMembers(s, i + 1, <<>>))
        ELSE IF c = "["
        THEN (IF At(s, SkipSpaces(s, i + 1)) = "]"
              THEN [ok |-> TRUE, val |-> JArr(<<>>), pos |-> SkipSpaces(s, i + 1) + 1]
              ELSE ReadItems(s, i + 1, <<>>))
        ELSE Fail

\* "key": value, ... } from position i, after the members in acc
ReadMembers(s, i0, acc) ==
    LET i == SkipSpaces(s, i0)
        k == IF At(s, i) = Quote THEN ReadChars(s, i + 1, <<>>) ELSE Fail
        colon == IF k.ok THEN SkipSpaces(s, k.pos) ELSE 0
        v == IF k.ok /\ At(s, colon) = ":" THEN ReadValue(s, colon + 1) ELSE Fail
        j == IF v.ok THEN SkipSpaces(s, v.pos) ELSE 0
        kv == Append(acc, <<KeyOf(k.val.v), v.val>>)
    IN  IF ~v.ok THEN Fail
        ELSE IF At(s, j) = "," THEN ReadMembers(s, j + 1, kv)
        ELSE IF At(s, j) = "}" THEN [ok |-> TRUE, val |-> JObj(kv), pos |-> j + 1]
        ELSE Fail

\* value, ... ] from position i, after the items in acc
ReadItems(s, i0, acc) ==
    LET v == ReadValue(s, i0)
        j == IF v.ok THEN SkipSpaces(s, v.pos) ELSE 0
    IN  IF ~v.ok THEN Fail
        ELSE IF At(s, j) = "," THEN ReadItems(s, j + 1, Append(acc, v.val))
        ELSE IF At(s, j) = "]" THEN [ok |-> TRUE, val |-> JArr(Append(acc, v.val)), pos |-> j + 1]
        ELSE Fail

\* json.loads of a line; [t |-> "bad"] when the line is not one JSON value
json_loads(line) ==
    LET r == ReadValue(line, 1)
    IN  IF r.ok /\ SkipSpaces(line, r.pos) = Len(line) + 1 THEN r.val ELSE [t |-> "bad"]

(***************************************************************************)
(* C6: after a write that succeeded the file holds one line per record     *)
(* that survived the filter, in the same order, each line reading back as  *)
(* that record, and no other line.                                         *)
(***************************************************************************)
C6_RoundTrip ==
    (trace # <<>> /\ IsSave(Last(trace)) /\ Last(trace).ok) =>
        /\ filename \in DOMAIN files
        /\ LET text == files[filename]
               lines == Lines(text)
           IN  /\ text # <<>> => Last(text) = "\n"
               /\ Len(lines) = Len(filtered_holidays)
               /\ \A k \in 1..Len(lines) : json_loads(lines[k]) = filtered_holidays[k]
        /\ filtered_holidays = SelectSeq(all_holidays, KeptByWindow)

\* two records written over the stale file, one with a line break and a
\* quote in its name
C6_Witness ==
    /\ pc = "loop"
    /\ Last(trace).ok
    /\ filtered_holidays = <<Holiday(<<"C", "\n", "\"">>, 2024, 1, 5), Holiday(<<"B">>, 2023, 12, 20)>>
    /\ Len(all_holidays) = 3
    /\ Len(Lines(files[filename])) = 2

(***************************************************************************)
(* The provider's holidays, read off its answer.                           *)
(***************************************************************************)
HasHolidayList(body) ==
    /\ HasMember(body, "response")
    /\ HasMember(Lookup(body, "response"), "holidays")
    /\ Lookup(Lookup(body, "response"), "holidays").t = "arr"

ProvidedHolidays(body) ==
    IF HasHolidayList(body) THEN Lookup(Lookup(body, "response"), "holidays").items ELSE <<>>

\* fetch_holidays has returned, with one request sent per call
FetchReturns ==
    /\ raised = "none" /\ pc # "crashed"
    /\ requests = Len(SelectSeq(trace, IsFetch))

====
